---- MODULE Spec2Model ----
(***************************************************************************)
(* Job / Pipeline orchestrator of src/src/jobs/controller.py.              *)
(*                                                                         *)
(* A Pipeline owns an insertion-ordered mapping of Jobs, computes an       *)
(* execution order by depth-first traversal of depends_on, and runs the    *)
(* jobs one at a time against a shared context.  Pipeline.run is modelled  *)
(* at the granularity of its observable steps: the call (context merge and *)
(* order computation), the top of each loop iteration (dependency gate and *)
(* the start of Job.execute), the callable returning or raising, and the   *)
(* normal return of run.  The jobs handed to add_job are freshly           *)
(* constructed; callables read the context they are given and touch        *)
(* neither it, the pipeline nor the job objects.  The ProcessController of *)
(* the same file and the retry loop of APIClient._make_request             *)
(* (src/src/api/client.py) are modelled next to it, each with its own      *)
(* specification.                                                          *)
(***************************************************************************)
EXTENDS Integers, Sequences, FiniteSets, TLC

VARIABLES
    jobs,             \* Pipeline.jobs: the keys of the dict, in insertion order
    job,              \* Pipeline.jobs: name -> the Job object's fields
    context,          \* Pipeline.context: key -> value
    pc,               \* where control is: "idle" (outside run), "loop", "exec"
    execution_order,  \* run's local execution_order / get_execution_order's value
    idx,              \* position of run's for-loop in execution_order
    clock,            \* the value the next datetime.now() returns
    outcome,          \* how the last call on the pipeline ended
    nCalls,           \* number of calls made on the pipeline so far
    calls,            \* name -> times the callable was invoked in the current run
    before,           \* name -> status the job held when the current run began
    merged,           \* the initial_context argument of the run in progress
    pipelines,        \* ProcessController.pipelines: the Pipeline objects, in insertion order
    heap,             \* the dict objects: the caller's and each Pipeline object's context
    results,          \* run_all_pipelines' local results: pipeline name -> entry
    ctl,              \* the ProcessController call in progress, and how the last one ended
    retry_attempts,   \* APIClient.retry_attempts
    attempt,          \* _make_request's loop variable
    rpc,              \* where _make_request is: "idle", "request", "sleep"
    sent,             \* how each request issued by the current _make_request ended
    sleeps,           \* the seconds slept by the current _make_request, in order
    ended,            \* how the last _make_request ended
    nRequests         \* number of _make_request calls made so far

\* the state of the ProcessController and of the dicts it hands around
controllerVars == <<pipelines, heap, results, ctl>>

\* the state of the APIClient
clientVars == <<retry_attempts, attempt, rpc, sent, sleeps, ended, nRequests>>

vars == <<jobs, job, context, pc, execution_order, idx, clock, outcome,
          nCalls, calls, before, merged, controllerVars, clientVars>>

----------------------------------------------------------------------------
(* Bounds of the model *)

\* job names the callers draw from
Names == {"a", "b", "c"}
\* longest depends_on list a caller passes to Job(...)
MaxDeps == 2
\* most depends_on entries held by the jobs of the pipeline, over all jobs
MaxEdges == 3
\* most calls made on the pipeline in one behaviour
MaxCalls == 4
\* depth of nested visit() calls at which the interpreter gives up
RecursionLimit == 6
\* most calls of get_execution_order() on one unchanged pipeline
MaxOrderCalls == 2
\* longest duration, in clock ticks, of an execution that took place before
\* the job was added to the pipeline
MaxDuration == 4
\* bits of the significand of a floating-point number (53 in a Python float)
MantissaBits == 2
\* names the callers give to Pipeline objects
PipelineNames == {"p", "q"}
\* the jobs of every Pipeline object handed to the ProcessController, in
\* their execution order
PipelineJobs == <<"a", "b">>
\* most run_pipeline and run_all_pipelines calls made on the
\* ProcessController in one behaviour
MaxControllerRuns == 2
\* largest retry_attempts an APIClient is constructed with
MaxRetryAttempts == 3
\* most calls of _make_request in one behaviour
MaxRequests == 2

----------------------------------------------------------------------------
(* Values *)

\* JobStatus
PENDING == "pending"
RUNNING == "running"
SUCCESS == "success"
FAILED  == "failed"
SKIPPED == "skipped"
JobStatus == {PENDING, RUNNING, SUCCESS, FAILED, SKIPPED}

\* Python's None, and a present value x, for the optional fields of a Job
None == <<>>
Some(x) == <<x>>

Range(s) == {s[i] : i \in 1..Len(s)}

\* all sequences over S of length at most n
RECURSIVE SeqsUpTo(_, _)
SeqsUpTo(S, n) ==
    IF n = 0 THEN {<<>>}
    ELSE LET shorter == SeqsUpTo(S, n - 1)
         IN  shorter \cup {Append(s, x) : s \in shorter, x \in S}

\* the depends_on lists a caller may pass
DepLists == SeqsUpTo(Names, MaxDeps)

\* f'job_{job_name}_result'
ResultKey(job_name) == "job_" \o job_name \o "_result"

\* the initial_context arguments a caller may pass to run()
InitialContexts ==
    { <<>>,
      [k \in {"user", ResultKey("a")} |-> 0] }

\* dict.update: the entries of d, and those of base under the other keys
Update(base, d) ==
    [k \in (DOMAIN base) \cup (DOMAIN d) |-> IF k \in DOMAIN d THEN d[k] ELSE base[k]]

\* Job.__init__
NewJob(depends_on) ==
    [depends_on |-> depends_on,
     status     |-> PENDING,
     result     |-> None,
     error      |-> None,
     start_time |-> None,
     end_time   |-> None]

\* job.depends_on as it would read if Job.__init__ dropped its depends_on
\* argument
DependsOnNothing(job_name) == <<>>

\* job.depends_on, as the pipeline reads it
DependsOn(job_name) == job[job_name].depends_on

NoCalls == [n \in Names |-> 0]
\* how a call ended: the method, the job name it was given (add_job), and the
\* condition it raised or "ok"/"returned"
Outcome(op, arg, kind) == [op |-> op, arg |-> arg, kind |-> kind]
NoOutcome == Outcome("none", "", "none")

----------------------------------------------------------------------------
(* Pipeline.get_execution_order *)

RECURSIVE Visit(_, _, _)
RECURSIVE VisitEach(_, _, _, _)

\* visit() as it would be if the job were appended before its dependencies
\* are visited
VisitAppendsFirst(job_name, st, depth) ==
    IF st.err # "none" THEN st
    ELSE IF depth > RecursionLimit THEN [st EXCEPT !.err = "RecursionError"]
    ELSE IF job_name \in st.visited THEN st
    ELSE IF job_name \notin Range(jobs) THEN [st EXCEPT !.err = "MissingDependency"]
    ELSE VisitEach(DependsOn(job_name), 1,
                   [st EXCEPT !.visited = @ \cup {job_name},
                              !.ordered = Append(@, job_name)],
                   depth + 1)

\* visit() as it would be if an unknown name were passed over in silence
VisitSkipsUnknown(job_name, st, depth) ==
    IF st.err # "none" THEN st
    ELSE IF depth > RecursionLimit THEN [st EXCEPT !.err = "RecursionError"]
    ELSE IF job_name \in st.visited THEN st
    ELSE IF job_name \notin Range(jobs) THEN st
    ELSE LET after == VisitEach(DependsOn(job_name), 1, st, depth + 1)
         IN  IF after.err # "none" THEN after
             ELSE [after EXCEPT !.visited = @ \cup {job_name},
                                !.ordered = Append(@, job_name)]

\* visit() as it would be without the `if job_name in visited: return` guard
VisitRevisits(job_name, st, depth) ==
    IF st.err # "none" THEN st
    ELSE IF depth > RecursionLimit THEN [st EXCEPT !.err = "RecursionError"]
    ELSE IF job_name \notin Range(jobs) THEN [st EXCEPT !.err = "MissingDependency"]
    ELSE LET after == VisitEach(DependsOn(job_name), 1, st, depth + 1)
         IN  IF after.err # "none" THEN after
             ELSE [after EXCEPT !.visited = @ \cup {job_name},
                                !.ordered = Append(@, job_name)]

\* visit(job_name), called at nesting depth `depth`; st is (ordered, visited)
\* and the exception in flight, if any
Visit(job_name, st, depth) ==
    IF st.err # "none" THEN st
    ELSE IF depth > RecursionLimit THEN [st EXCEPT !.err = "RecursionError"]
    ELSE IF job_name \in st.visited THEN st
    ELSE IF job_name \notin Range(jobs) THEN [st EXCEPT !.err = "MissingDependency"]
    ELSE LET after == VisitEach(DependsOn(job_name), 1, st, depth + 1)
         IN  IF after.err # "none" THEN after
             ELSE [after EXCEPT !.visited = @ \cup {job_name},
                                !.ordered = Append(@, job_name)]

\* for name in names: visit(name)
VisitEach(names, i, st, depth) ==
    IF i > Len(names) \/ st.err # "none" THEN st
    ELSE VisitEach(names, i + 1, Visit(names[i], st, depth), depth)

\* get_execution_order() as it would be if the top-level loop went through
\* self.jobs from the last inserted job to the first
GetExecutionOrderFromLast ==
    VisitEach([i \in 1..Len(jobs) |-> jobs[Len(jobs) + 1 - i]], 1,
              [ordered |-> <<>>, visited |-> {}, err |-> "none"], 1)

\* pipeline.get_execution_order()
GetExecutionOrder ==
    VisitEach(jobs, 1, [ordered |-> <<>>, visited |-> {}, err |-> "none"], 1)

----------------------------------------------------------------------------
(* ProcessController and APIClient: values and initial state *)

\* the Pipeline objects the callers construct: two of them have the same
\* name and are different objects
Pipelines ==
    { [name |-> "p", serial |-> 1],
      [name |-> "p", serial |-> 2],
      [name |-> "q", serial |-> 1] }

\* the caller, and the dict object it builds to pass as context
CALLER == [name |-> "caller", serial |-> 0]

\* references to dict objects: the caller's dict and the context of each
\* Pipeline object (Pipeline.__init__: self.context = {})
Refs == {CALLER} \cup Pipelines

\* what the caller puts in the dict it builds
CallerContexts ==
    { <<>>,
      [k \in {"user"} |-> CALLER] }

\* the context arguments a caller may pass: None, the dict it built, or the
\* context of a Pipeline object (Pipeline.context, which run() also returns)
ContextArguments == {None} \cup {Some(r) : r \in Refs}

\* ProcessController.__init__, with no call made yet
ControllerInit ==
    /\ pipelines = <<>>
    /\ heap = [r \in Refs |-> <<>>]
    /\ results = <<>>
    /\ ctl = [pc      |-> "idle",
              idx     |-> 0,
              context |-> None,
              passed  |-> <<>>,
              ran     |-> <<>>,
              outcome |-> NoOutcome,
              nRuns   |-> 0]

\* retry_attempts: int = 3
DefaultRetryAttempts == 3

\* APIClient.__init__ with the default retry_attempts, and no request made
ClientInit ==
    /\ retry_attempts = DefaultRetryAttempts
    /\ attempt = 0
    /\ rpc = "idle"
    /\ sent = <<>>
    /\ sleeps = <<>>
    /\ ended = NoOutcome
    /\ nRequests = 0

----------------------------------------------------------------------------
(* The initial state: Pipeline.__init__ *)

Init ==
    /\ jobs = <<>>
    /\ job = <<>>
    /\ context = <<>>
    /\ pc = "idle"
    /\ execution_order = <<>>
    /\ idx = 0
    /\ clock = 1
    /\ outcome = NoOutcome
    /\ nCalls = 0
    /\ calls = NoCalls
    /\ before = <<>>
    /\ merged = <<>>
    /\ ControllerInit
    /\ ClientInit

----------------------------------------------------------------------------
(* Pipeline.add_job, Pipeline.remove_job *)

TotalEdges == LET RECURSIVE Sum(_)
                  Sum(i) == IF i = 0 THEN 0 ELSE Len(job[jobs[i]].depends_on) + Sum(i - 1)
              IN  Sum(Len(jobs))

\* add_job() as it would be without the duplicate check: self.jobs[job.name] = job
AddJobOverwrites(name, depends_on) ==
    /\ pc = "idle"
    /\ nCalls < MaxCalls
    /\ nCalls' = nCalls + 1
    /\ IF name \in Range(jobs)
       THEN depends_on = <<>>
       ELSE TotalEdges + Len(depends_on) <= MaxEdges
    /\ jobs' = IF name \in Range(jobs) THEN jobs ELSE Append(jobs, name)
    /\ job' = [n \in Range(jobs) \cup {name} |->
                  IF n = name THEN NewJob(depends_on) ELSE job[n]]
    /\ outcome' = Outcome("add_job", name, "ok")
    /\ UNCHANGED <<context, pc, execution_order, idx, clock, calls, before, merged,
                   controllerVars, clientVars>>

\* pipeline.add_job(Job(name, func, depends_on)).  A job that add_job rejects
\* leaves no trace of its fields, so one such job per name is drawn.
AddJob(name, depends_on) ==
    /\ pc = "idle"
    /\ nCalls < MaxCalls
    /\ nCalls' = nCalls + 1
    /\ IF name \in Range(jobs)
       THEN depends_on = <<>>
       ELSE TotalEdges + Len(depends_on) <= MaxEdges
    /\ IF name \in Range(jobs)
       THEN /\ outcome' = Outcome("add_job", name, "DuplicateJob")
            /\ UNCHANGED <<jobs, job>>
       ELSE /\ jobs' = Append(jobs, name)
            /\ job' = [n \in Range(jobs) \cup {name} |->
                          IF n = name THEN NewJob(depends_on) ELSE job[n]]
            /\ outcome' = Outcome("add_job", name, "ok")
    /\ UNCHANGED <<context, pc, execution_order, idx, clock, calls, before, merged,
                   controllerVars, clientVars>>

\* pipeline.remove_job(job_name)
RemoveJob(job_name) ==
    /\ pc = "idle"
    /\ nCalls < MaxCalls
    /\ nCalls' = nCalls + 1
    /\ IF job_name \in Range(jobs)
       THEN /\ jobs' = SelectSeq(jobs, LAMBDA n : n # job_name)
            /\ job' = [n \in Range(jobs) \ {job_name} |-> job[n]]
       ELSE UNCHANGED <<jobs, job>>
    /\ outcome' = Outcome("remove_job", "", "ok")
    /\ UNCHANGED <<context, pc, execution_order, idx, clock, calls, before, merged,
                   controllerVars, clientVars>>

----------------------------------------------------------------------------
(* Pipeline.run *)

\* the dependency gate of one loop iteration: can_run
CanRun(job_name) ==
    \A i \in 1..Len(DependsOn(job_name)) :
        job[DependsOn(job_name)[i]].status = SUCCESS

\* run() as it would be if it iterated self.jobs without computing the order
RunStartSkipsOrder(initial_context) ==
    /\ pc = "idle"
    /\ nCalls < MaxCalls
    /\ nCalls' = nCalls + 1
    /\ context' = Update(context, initial_context)
    /\ calls' = NoCalls
    /\ execution_order' = jobs
    /\ idx' = 1
    /\ pc' = "loop"
    /\ before' = [n \in Range(jobs) |-> job[n].status]
    /\ merged' = initial_context
    /\ UNCHANGED <<controllerVars, clientVars>>
    /\ outcome' = Outcome("run", "", "running")
    /\ UNCHANGED <<jobs, job, clock>>

\* run() as it would be if the merge kept the values the context already
\* holds: for k, v in initial_context.items(): self.context.setdefault(k, v)
RunStartKeepsExistingKeys(initial_context) ==
    /\ pc = "idle"
    /\ nCalls < MaxCalls
    /\ nCalls' = nCalls + 1
    /\ context' = Update(initial_context, context)
    /\ calls' = NoCalls
    /\ LET r == GetExecutionOrder
       IN  IF r.err # "none"
           THEN /\ outcome' = Outcome("run", "", r.err)
                /\ UNCHANGED <<pc, execution_order, idx, before, merged,
                               controllerVars, clientVars>>
           ELSE /\ execution_order' = r.ordered
                /\ idx' = 1
                /\ pc' = "loop"
                /\ before' = [n \in Range(jobs) |-> job[n].status]
                /\ merged' = initial_context
                /\ UNCHANGED <<controllerVars, clientVars>>
                /\ outcome' = Outcome("run", "", "running")
    /\ UNCHANGED <<jobs, job, clock>>

\* pipeline.run(initial_context): merge the context and compute the order
RunStart(initial_context) ==
    /\ pc = "idle"
    /\ nCalls < MaxCalls
    /\ nCalls' = nCalls + 1
    /\ context' = Update(context, initial_context)
    /\ calls' = NoCalls
    /\ LET r == GetExecutionOrder
       IN  IF r.err # "none"
           THEN /\ outcome' = Outcome("run", "", r.err)
                /\ UNCHANGED <<pc, execution_order, idx, before, merged,
                               controllerVars, clientVars>>
           ELSE /\ execution_order' = r.ordered
                /\ idx' = 1
                /\ pc' = "loop"
                /\ before' = [n \in Range(jobs) |-> job[n].status]
                /\ merged' = initial_context
                /\ UNCHANGED <<controllerVars, clientVars>>
                /\ outcome' = Outcome("run", "", "running")
    /\ UNCHANGED <<jobs, job, clock>>

\* the loop iteration as it would be if Job.execute did not set status RUNNING
BeginJobKeepsStatus ==
    /\ pc = "loop"
    /\ idx <= Len(execution_order)
    /\ LET job_name == execution_order[idx]
       IN  IF CanRun(job_name)
           THEN /\ job' = [job EXCEPT ![job_name].start_time = Some(clock)]
                /\ clock' = clock + 1
                /\ calls' = [calls EXCEPT ![job_name] = @ + 1]
                /\ pc' = "exec"
                /\ UNCHANGED idx
           ELSE /\ job' = [job EXCEPT ![job_name].status = SKIPPED]
                /\ idx' = idx + 1
                /\ UNCHANGED <<clock, calls, pc>>
    /\ UNCHANGED <<jobs, context, execution_order, outcome, nCalls, before, merged,
                   controllerVars, clientVars>>

\* the loop iteration as it would be if run() resumed: a job left Success by
\* an earlier run is passed over
BeginJobSkipsDone ==
    /\ pc = "loop"
    /\ idx <= Len(execution_order)
    /\ LET job_name == execution_order[idx]
       IN  IF job[job_name].status = SUCCESS
           THEN /\ idx' = idx + 1
                /\ UNCHANGED <<job, clock, calls, pc>>
           ELSE IF CanRun(job_name)
           THEN /\ job' = [job EXCEPT ![job_name].status = RUNNING,
                                      ![job_name].start_time = Some(clock)]
                /\ clock' = clock + 1
                /\ calls' = [calls EXCEPT ![job_name] = @ + 1]
                /\ pc' = "exec"
                /\ UNCHANGED idx
           ELSE /\ job' = [job EXCEPT ![job_name].status = SKIPPED]
                /\ idx' = idx + 1
                /\ UNCHANGED <<clock, calls, pc>>
    /\ UNCHANGED <<jobs, context, execution_order, outcome, nCalls, before, merged,
                   controllerVars, clientVars>>

\* the loop iteration as it would be if Job.execute cleared the error of the
\* previous attempt before invoking the callable
BeginJobClearsError ==
    /\ pc = "loop"
    /\ idx <= Len(execution_order)
    /\ LET job_name == execution_order[idx]
       IN  IF CanRun(job_name)
           THEN /\ job' = [job EXCEPT ![job_name].status = RUNNING,
                                      ![job_name].error = None,
                                      ![job_name].start_time = Some(clock)]
                /\ clock' = clock + 1
                /\ calls' = [calls EXCEPT ![job_name] = @ + 1]
                /\ pc' = "exec"
                /\ UNCHANGED idx
           ELSE /\ job' = [job EXCEPT ![job_name].status = SKIPPED]
                /\ idx' = idx + 1
                /\ UNCHANGED <<clock, calls, pc>>
    /\ UNCHANGED <<jobs, context, execution_order, outcome, nCalls, before, merged,
                   controllerVars, clientVars>>

\* one iteration of `for job_name in execution_order`, up to the call of the
\* job's callable inside Job.execute
BeginJob ==
    /\ pc = "loop"
    /\ idx <= Len(execution_order)
    /\ LET job_name == execution_order[idx]
       IN  IF CanRun(job_name)
           THEN /\ job' = [job EXCEPT ![job_name].status = RUNNING,
                                      ![job_name].start_time = Some(clock)]
                /\ clock' = clock + 1
                /\ calls' = [calls EXCEPT ![job_name] = @ + 1]
                /\ pc' = "exec"
                /\ UNCHANGED idx
           ELSE /\ job' = [job EXCEPT ![job_name].status = SKIPPED]
                /\ idx' = idx + 1
                /\ UNCHANGED <<clock, calls, pc>>
    /\ UNCHANGED <<jobs, context, execution_order, outcome, nCalls, before, merged,
                   controllerVars, clientVars>>

\* the success path as it would be without the store
\* self.context[f'job_{job_name}_result'] = result
FuncReturnsWithoutStore ==
    /\ pc = "exec"
    /\ LET job_name == execution_order[idx]
           result == job[job_name].start_time[1]
       IN  job' = [job EXCEPT ![job_name].result = Some(result),
                              ![job_name].status = SUCCESS,
                              ![job_name].end_time = Some(clock)]
    /\ clock' = clock + 1
    /\ idx' = idx + 1
    /\ pc' = "loop"
    /\ UNCHANGED <<jobs, context, execution_order, outcome, nCalls, calls, before, merged,
                   controllerVars, clientVars>>

\* the callable returns: the rest of Job.execute and the context store.  The
\* value returned is opaque to the pipeline; it is modelled as a token unique
\* to the invocation (the invocation's start time).
FuncReturns ==
    /\ pc = "exec"
    /\ LET job_name == execution_order[idx]
           result == job[job_name].start_time[1]
       IN  /\ job' = [job EXCEPT ![job_name].result = Some(result),
                                 ![job_name].status = SUCCESS,
                                 ![job_name].end_time = Some(clock)]
           /\ context' = Update(context, [k \in {ResultKey(job_name)} |-> result])
    /\ clock' = clock + 1
    /\ idx' = idx + 1
    /\ pc' = "loop"
    /\ UNCHANGED <<jobs, execution_order, outcome, nCalls, calls, before, merged,
                   controllerVars, clientVars>>

\* the failure path as it would be if run() logged the exception without
\* re-raising it and went on with the next job
FuncRaisesContinues ==
    /\ pc = "exec"
    /\ LET job_name == execution_order[idx]
       IN  job' = [job EXCEPT ![job_name].status = FAILED,
                              ![job_name].error = Some("error"),
                              ![job_name].end_time = Some(clock)]
    /\ clock' = clock + 1
    /\ idx' = idx + 1
    /\ pc' = "loop"
    /\ UNCHANGED <<jobs, context, execution_order, outcome, nCalls,
                   calls, before, merged, controllerVars, clientVars>>

\* the failure path as it would be if run() marked the jobs it will not reach
\* as skipped before re-raising
FuncRaisesSkipsRest ==
    /\ pc = "exec"
    /\ LET job_name == execution_order[idx]
           rest == {execution_order[k] : k \in (idx + 1)..Len(execution_order)}
       IN  job' = [n \in DOMAIN job |->
                     IF n = job_name
                     THEN [job[n] EXCEPT !.status = FAILED,
                                         !.error = Some("error"),
                                         !.end_time = Some(clock)]
                     ELSE IF n \in rest THEN [job[n] EXCEPT !.status = SKIPPED]
                     ELSE job[n]]
    /\ clock' = clock + 1
    /\ pc' = "idle"
    /\ execution_order' = <<>>
    /\ idx' = 0
    /\ calls' = NoCalls
    /\ before' = <<>>
    /\ merged' = <<>>
    /\ UNCHANGED <<controllerVars, clientVars>>
    /\ outcome' = Outcome("run", "", "JobExecutionFailure")
    /\ UNCHANGED <<jobs, context, nCalls>>

\* the failure path as it would be if the except branch of Job.execute also
\* cleared self.result
FuncRaisesClearsResult ==
    /\ pc = "exec"
    /\ LET job_name == execution_order[idx]
       IN  job' = [job EXCEPT ![job_name].status = FAILED,
                              ![job_name].error = Some("error"),
                              ![job_name].result = None,
                              ![job_name].end_time = Some(clock)]
    /\ clock' = clock + 1
    /\ pc' = "idle"
    /\ execution_order' = <<>>
    /\ idx' = 0
    /\ calls' = NoCalls
    /\ before' = <<>>
    /\ merged' = <<>>
    /\ UNCHANGED <<controllerVars, clientVars>>
    /\ outcome' = Outcome("run", "", "JobExecutionFailure")
    /\ UNCHANGED <<jobs, context, nCalls>>

\* the failure path as it would be if end_time were set on the success path
\* only, not in a finally clause
FuncRaisesWithoutEndTime ==
    /\ pc = "exec"
    /\ LET job_name == execution_order[idx]
       IN  job' = [job EXCEPT ![job_name].status = FAILED,
                              ![job_name].error = Some("error")]
    /\ clock' = clock + 1
    /\ pc' = "idle"
    /\ execution_order' = <<>>
    /\ idx' = 0
    /\ calls' = NoCalls
    /\ before' = <<>>
    /\ merged' = <<>>
    /\ UNCHANGED <<controllerVars, clientVars>>
    /\ outcome' = Outcome("run", "", "JobExecutionFailure")
    /\ UNCHANGED <<jobs, context, nCalls>>

\* the callable raises: the except and finally of Job.execute, re-raised by run
FuncRaises ==
    /\ pc = "exec"
    /\ LET job_name == execution_order[idx]
       IN  job' = [job EXCEPT ![job_name].status = FAILED,
                              ![job_name].error = Some("error"),
                              ![job_name].end_time = Some(clock)]
    /\ clock' = clock + 1
    /\ pc' = "idle"
    /\ execution_order' = <<>>
    /\ idx' = 0
    /\ calls' = NoCalls
    /\ before' = <<>>
    /\ merged' = <<>>
    /\ UNCHANGED <<controllerVars, clientVars>>
    /\ outcome' = Outcome("run", "", "JobExecutionFailure")
    /\ UNCHANGED <<jobs, context, nCalls>>

\* the loop is exhausted: return self.context
RunReturns ==
    /\ pc = "loop"
    /\ idx > Len(execution_order)
    /\ pc' = "idle"
    /\ execution_order' = <<>>
    /\ idx' = 0
    /\ calls' = NoCalls
    /\ before' = <<>>
    /\ merged' = <<>>
    /\ UNCHANGED <<controllerVars, clientVars>>
    /\ outcome' = Outcome("run", "", "returned")
    /\ UNCHANGED <<jobs, job, context, clock, nCalls>>

----------------------------------------------------------------------------
(* Job.get_duration, Pipeline.get_status_summary *)

\* the weight of the last significand bit of a float of magnitude a
RECURSIVE UnitOf(_, _)
UnitOf(a, u) == IF a < (2 ^ MantissaBits) * u THEN u ELSE UnitOf(a, 2 * u)

\* the float nearest to the number x, ties going to the even significand;
\* numbers are counted in clock ticks
RoundToFloat(x) ==
    LET Nearest(v) ==
            LET a    == IF v < 0 THEN 0 - v ELSE v
                u    == UnitOf(a, 1)
                q    == a \div u
                r    == a % u
                up   == 2 * r > u \/ (2 * r = u /\ q % 2 = 1)
                near == (IF up THEN q + 1 ELSE q) * u
            IN  IF v < 0 THEN 0 - near ELSE near
    IN  CHOOSE y \in {Nearest(v) : v \in {x}} : TRUE

\* x + y on floats
FloatAdd(x, y) == RoundToFloat(x + y)

\* timedelta.total_seconds(): the float nearest to the exact difference
TotalSeconds(ticks) == RoundToFloat(ticks)

\* job.get_duration(): end_time - start_time as a float, or None
GetDuration(n) ==
    IF job[n].start_time # None /\ job[n].end_time # None
    THEN Some(TotalSeconds(job[n].end_time[1] - job[n].start_time[1]))
    ELSE None

\* the counting loop as it would be if statuses[job.status] += 1 stood inside
\* the `if duration:` block
RECURSIVE CountStatusesOnlyTimed(_, _)
CountStatusesOnlyTimed(i, statuses) ==
    IF i > Len(jobs) THEN statuses
    ELSE CountStatusesOnlyTimed(i + 1,
             IF GetDuration(jobs[i]) # None
             THEN [statuses EXCEPT ![job[jobs[i]].status] = @ + 1]
             ELSE statuses)

\* for job in self.jobs.values(): statuses[job.status] += 1
RECURSIVE CountStatuses(_, _)
CountStatuses(i, statuses) ==
    IF i > Len(jobs) THEN statuses
    ELSE CountStatuses(i + 1, [statuses EXCEPT ![job[jobs[i]].status] = @ + 1])

\* the summing loop as it would be with `total_duration = duration` in place
\* of `total_duration += duration`
RECURSIVE SumDurationsKeepsLast(_, _)
SumDurationsKeepsLast(i, total_duration) ==
    IF i > Len(jobs) THEN total_duration
    ELSE LET duration == GetDuration(jobs[i])
         IN  SumDurationsKeepsLast(i + 1,
                                   IF duration # None /\ duration[1] # 0
                                   THEN duration[1]
                                   ELSE total_duration)

\* for job in self.jobs.values(): if duration: total_duration += duration
RECURSIVE SumDurations(_, _)
SumDurations(i, total_duration) ==
    IF i > Len(jobs) THEN total_duration
    ELSE LET duration == GetDuration(jobs[i])
         IN  SumDurations(i + 1,
                          IF duration # None /\ duration[1] # 0
                          THEN FloatAdd(total_duration, duration[1])
                          ELSE total_duration)

\* pipeline.get_status_summary()
GetStatusSummary ==
    [total_jobs     |-> Len(jobs),
     status_counts  |-> CountStatuses(1, [s \in JobStatus |-> 0]),
     total_duration |-> SumDurations(1, 0),
     jobs           |-> [n \in Range(jobs) |->
                           [status   |-> job[n].status,
                            duration |-> GetDuration(n),
                            error    |-> job[n].error]]]

----------------------------------------------------------------------------

Next ==
    \/ \E name \in Names, depends_on \in DepLists : AddJob(name, depends_on)
    \/ \E job_name \in Names : RemoveJob(job_name)
    \/ \E initial_context \in InitialContexts : RunStart(initial_context)
    \/ BeginJob
    \/ FuncReturns
    \/ FuncRaises
    \/ RunReturns

Spec == Init /\ [][Next]_vars

----------------------------------------------------------------------------
(* get_status_summary() called between the other calls on the pipeline *)

\* get_status_summary() as it would be if it also kept the total it computed:
\* self.context['total_duration'] = total_duration
CallGetStatusSummaryKeepsTotal ==
    /\ pc = "idle"
    /\ nCalls < MaxCalls
    /\ nCalls' = nCalls + 1
    /\ outcome' = Outcome("get_status_summary", "", "returned")
    /\ context' = Update(context,
                         [k \in {"total_duration"} |-> GetStatusSummary.total_duration])
    /\ UNCHANGED <<jobs, job, pc, execution_order, idx, clock, calls,
                   before, merged, controllerVars, clientVars>>

\* summary = pipeline.get_status_summary(): the method assigns to its locals
\* only; what it returns is GetStatusSummary
CallGetStatusSummary ==
    /\ pc = "idle"
    /\ nCalls < MaxCalls
    /\ nCalls' = nCalls + 1
    /\ outcome' = Outcome("get_status_summary", "", "returned")
    /\ UNCHANGED <<jobs, job, context, pc, execution_order, idx, clock, calls,
                   before, merged, controllerVars, clientVars>>

SpecSummary == Init /\ [][Next \/ CallGetStatusSummary]_vars

----------------------------------------------------------------------------
(* get_execution_order() called on its own, on every pipeline that add_job  *)
(* can build from Names and DepLists                                        *)

\* the orders in which the names of a pipeline can have been inserted
JobSeqs ==
    {s \in SeqsUpTo(Names, Cardinality(Names)) :
        \A i, k \in 1..Len(s) : i # k => s[i] # s[k]}

InitOrder ==
    /\ jobs \in JobSeqs
    /\ job \in [Range(jobs) -> {NewJob(d) : d \in DepLists}]
    /\ context = <<>>
    /\ pc = "idle"
    /\ execution_order = <<>>
    /\ idx = 0
    /\ clock = 1
    /\ outcome = NoOutcome
    /\ nCalls = 0
    /\ calls = NoCalls
    /\ before = <<>>
    /\ merged = <<>>
    /\ ControllerInit
    /\ ClientInit

\* order = pipeline.get_execution_order()
CallGetExecutionOrder ==
    /\ pc = "idle"
    /\ nCalls < MaxOrderCalls
    /\ nCalls' = nCalls + 1
    /\ \E r \in {GetExecutionOrder} :
           IF r.err # "none"
           THEN /\ outcome' = Outcome("get_execution_order", "", r.err)
                /\ UNCHANGED execution_order
           ELSE /\ outcome' = Outcome("get_execution_order", "", "returned")
                /\ execution_order' = r.ordered
    /\ UNCHANGED <<jobs, job, context, pc, idx, clock, calls, before, merged,
                   controllerVars, clientVars>>

SpecOrder == InitOrder /\ [][CallGetExecutionOrder]_vars

----------------------------------------------------------------------------
(* The summary of a pipeline of jobs that were executed before they were    *)
(* added: add_job takes any Job object, and the pipeline can be rebuilt in  *)
(* another insertion order from the same objects                            *)

\* the order in which the jobs were executed
ExecutedOrder == <<"a", "b", "c">>

\* the clock when the k-th of the executed jobs started, the jobs having
\* taken d[name] ticks each and one tick passing between two executions
RECURSIVE StartOf(_, _)
StartOf(k, d) ==
    IF k = 1 THEN 1 ELSE StartOf(k - 1, d) + d[ExecutedOrder[k - 1]] + 1

\* the fields of the k-th job after Job.execute returned
Executed(k, d) ==
    [depends_on |-> <<>>,
     status     |-> SUCCESS,
     result     |-> Some(StartOf(k, d)),
     error      |-> None,
     start_time |-> Some(StartOf(k, d)),
     end_time   |-> Some(StartOf(k, d) + d[ExecutedOrder[k]])]

InitDurations ==
    /\ jobs \in JobSeqs
    /\ \E d \in [Names -> 1..MaxDuration] :
          job \in {f \in [Range(jobs) ->
                            {Executed(k, d) : k \in 1..Len(ExecutedOrder)}] :
                     \A k \in 1..Len(ExecutedOrder) :
                         ExecutedOrder[k] \in Range(jobs) =>
                             f[ExecutedOrder[k]] = Executed(k, d)}
    /\ context = <<>>
    /\ pc = "idle"
    /\ execution_order = <<>>
    /\ idx = 0
    /\ clock = 1
    /\ outcome = NoOutcome
    /\ nCalls = 0
    /\ calls = NoCalls
    /\ before = <<>>
    /\ merged = <<>>
    /\ ControllerInit
    /\ ClientInit

\* j = p.jobs[job_name]; p.remove_job(job_name); p.add_job(j): the same Job
\* object is inserted again, now last
ReinsertJob(job_name) ==
    /\ pc = "idle"
    /\ job_name \in Range(jobs)
    /\ jobs' = Append(SelectSeq(jobs, LAMBDA n : n # job_name), job_name)
    /\ outcome' = Outcome("reinsert", job_name, "ok")
    /\ UNCHANGED <<job, context, pc, execution_order, idx, clock, nCalls, calls,
                   before, merged, controllerVars, clientVars>>

NextDurations ==
    \/ \E job_name \in Names : ReinsertJob(job_name)
    \/ CallGetStatusSummary

SpecDurations == InitDurations /\ [][NextDurations]_vars

----------------------------------------------------------------------------
(* ProcessController.  Dicts are objects, held by reference: the caller's   *)
(* context argument and the context of each Pipeline object live in heap,   *)
(* and a value stored in a dict names who wrote it.  Pipeline.run is taken  *)
(* here by its effect on the dicts and by how it ends: it merges the        *)
(* argument into the pipeline's own context, stores the result of each job  *)
(* that succeeds, and returns its own context or raises at the first job    *)
(* that fails.                                                              *)

\* `if initial_context: self.context.update(initial_context)`
Merge(h, pipeline, argument) ==
    IF argument # None /\ h[argument[1]] # <<>>
    THEN [h EXCEPT ![pipeline] = Update(h[pipeline], h[argument[1]])]
    ELSE h

\* `self.context[f'job_{job_name}_result'] = result` for the first k jobs
WriteResults(h, pipeline, k) ==
    [h EXCEPT ![pipeline] =
        Update(h[pipeline],
               [key \in {ResultKey(PipelineJobs[i]) : i \in 1..k} |-> pipeline])]

\* Pipeline.run as it would be if the pipeline took the argument as its
\* context instead of copying from it: what it writes shows in the argument
PipelineRunSharesContext(h, pipeline, argument, k) ==
    LET h1 == WriteResults(Merge(h, pipeline, argument), pipeline, k)
    IN  IF argument # None /\ h[argument[1]] # <<>>
        THEN [h1 EXCEPT ![argument[1]] = h1[pipeline]]
        ELSE h1

\* the dicts after pipeline.run(argument) in which k jobs succeed
PipelineRun(h, pipeline, argument, k) ==
    WriteResults(Merge(h, pipeline, argument), pipeline, k)

\* the run raises: a job after the first k failed
RunRaises(k) == k < Len(PipelineJobs)

\* a run of a pipeline made by the call in progress, and whether it raised
Ran(pipeline, k) == [pipeline |-> pipeline, raised |-> RunRaises(k)]

\* the values of run_all_pipelines' results: the context the pipeline
\* returned (the object itself), or {'error': str(e)}
Returned(pipeline) == [context |-> Some(pipeline), error |-> None]
Failure(message) == [context |-> None, error |-> Some(message)]

\* `name in self.pipelines`
Registered(name) == \E i \in 1..Len(pipelines) : pipelines[i].name = name

\* self.pipelines[name]
PipelineNamed(name) ==
    pipelines[CHOOSE i \in 1..Len(pipelines) : pipelines[i].name = name]

\* the dicts once the caller has built the one it passes
WithCallerDict(argument, d) ==
    IF argument = Some(CALLER) THEN [heap EXCEPT ![CALLER] = d] ELSE heap

\* the dicts the caller may have built for a call with this argument
BuiltFor(argument) ==
    IF argument = Some(CALLER) THEN CallerContexts ELSE {heap[CALLER]}

\* what the dict passed as context holds
Passed(h, argument) == IF argument = None THEN <<>> ELSE h[argument[1]]

\* ProcessController.add_pipeline: self.pipelines[pipeline.name] = pipeline
AddPipeline(pipeline) ==
    /\ ctl.pc = "idle"
    /\ pipeline \notin Range(pipelines)
    /\ pipelines' =
          IF Registered(pipeline.name)
          THEN [i \in 1..Len(pipelines) |->
                   IF pipelines[i].name = pipeline.name THEN pipeline
                   ELSE pipelines[i]]
          ELSE Append(pipelines, pipeline)
    /\ ctl' = [ctl EXCEPT !.outcome = Outcome("add_pipeline", pipeline.name, "ok")]
    /\ UNCHANGED <<heap, results, clientVars>>
    /\ UNCHANGED <<jobs, job, context, pc, execution_order, idx, clock, outcome,
                   nCalls, calls, before, merged>>

\* ProcessController.run_pipeline
RunPipeline(name, argument, d, k) ==
    /\ ctl.pc = "idle"
    /\ ctl.nRuns < MaxControllerRuns
    /\ LET h == WithCallerDict(argument, d)
       IN  IF ~Registered(name)
           THEN /\ heap' = h
                /\ ctl' = [ctl EXCEPT !.context = argument,
                                      !.passed = Passed(h, argument),
                                      !.ran = <<>>,
                                      !.outcome = Outcome("run_pipeline", name, "PipelineNotFound"),
                                      !.nRuns = @ + 1]
           ELSE /\ heap' = PipelineRun(h, PipelineNamed(name), argument, k)
                /\ ctl' = [ctl EXCEPT !.context = argument,
                                      !.passed = Passed(h, argument),
                                      !.ran = <<Ran(PipelineNamed(name), k)>>,
                                      !.outcome =
                                          Outcome("run_pipeline", name,
                                                  IF RunRaises(k) THEN "JobExecutionFailure"
                                                  ELSE "returned"),
                                      !.nRuns = @ + 1]
    /\ UNCHANGED <<pipelines, results, clientVars>>
    /\ UNCHANGED <<jobs, job, context, pc, execution_order, idx, clock, outcome,
                   nCalls, calls, before, merged>>

\* run_all_pipelines is called: results = {}
RunAllStart(argument, d) ==
    /\ ctl.pc = "idle"
    /\ ctl.nRuns < MaxControllerRuns
    /\ heap' = WithCallerDict(argument, d)
    /\ results' = <<>>
    /\ ctl' = [ctl EXCEPT !.pc = "loop",
                          !.idx = 1,
                          !.context = argument,
                          !.passed = Passed(heap', argument),
                          !.ran = <<>>,
                          !.outcome = Outcome("run_all_pipelines", "", "running"),
                          !.nRuns = @ + 1]
    /\ UNCHANGED <<pipelines, clientVars>>
    /\ UNCHANGED <<jobs, job, context, pc, execution_order, idx, clock, outcome,
                   nCalls, calls, before, merged>>

\* the loop iteration as it would be without the try: the failure of a
\* pipeline ends run_all_pipelines
RunAllStepPropagates(k) ==
    /\ ctl.pc = "loop"
    /\ ctl.idx <= Len(pipelines)
    /\ LET pipeline == pipelines[ctl.idx]
       IN  /\ heap' = PipelineRun(heap, pipeline, ctl.context, k)
           /\ IF RunRaises(k)
              THEN /\ UNCHANGED results
                   /\ ctl' = [ctl EXCEPT !.pc = "idle",
                                         !.idx = 0,
                                         !.ran = Append(@, Ran(pipeline, k)),
                                         !.outcome = Outcome("run_all_pipelines", "",
                                                             "JobExecutionFailure")]
              ELSE /\ results' = Update(results, [n \in {pipeline.name} |-> Returned(pipeline)])
                   /\ ctl' = [ctl EXCEPT !.idx = @ + 1, !.ran = Append(@, Ran(pipeline, k))]
    /\ UNCHANGED <<pipelines, clientVars>>
    /\ UNCHANGED <<jobs, job, context, pc, execution_order, idx, clock, outcome,
                   nCalls, calls, before, merged>>

\* one iteration of `for name, pipeline in self.pipelines.items()`
RunAllStep(k) ==
    /\ ctl.pc = "loop"
    /\ ctl.idx <= Len(pipelines)
    /\ LET pipeline == pipelines[ctl.idx]
       IN  /\ heap' = PipelineRun(heap, pipeline, ctl.context, k)
           /\ results' =
                 Update(results,
                        [n \in {pipeline.name} |->
                            IF RunRaises(k) THEN Failure("error") ELSE Returned(pipeline)])
           /\ ctl' = [ctl EXCEPT !.idx = @ + 1, !.ran = Append(@, Ran(pipeline, k))]
    /\ UNCHANGED <<pipelines, clientVars>>
    /\ UNCHANGED <<jobs, job, context, pc, execution_order, idx, clock, outcome,
                   nCalls, calls, before, merged>>

\* the loop is exhausted: return results
RunAllReturns ==
    /\ ctl.pc = "loop"
    /\ ctl.idx > Len(pipelines)
    /\ ctl' = [ctl EXCEPT !.pc = "idle",
                          !.idx = 0,
                          !.outcome = Outcome("run_all_pipelines", "", "returned")]
    /\ UNCHANGED <<pipelines, heap, results, clientVars>>
    /\ UNCHANGED <<jobs, job, context, pc, execution_order, idx, clock, outcome,
                   nCalls, calls, before, merged>>

NextController ==
    \/ \E pipeline \in Pipelines : AddPipeline(pipeline)
    \/ \E name \in PipelineNames, argument \in ContextArguments,
          k \in 0..Len(PipelineJobs) :
          \E d \in BuiltFor(argument) : RunPipeline(name, argument, d, k)
    \/ \E argument \in ContextArguments :
          \E d \in BuiltFor(argument) : RunAllStart(argument, d)
    \/ \E k \in 0..Len(PipelineJobs) : RunAllStep(k)
    \/ RunAllReturns

SpecController == Init /\ [][NextController]_vars

----------------------------------------------------------------------------
(* APIClient._make_request of src/src/api/client.py: the retry loop.  A     *)
(* request ends with a response whose status is good, with a                *)
(* RequestException (raised by session.request or by raise_for_status), or  *)
(* with an exception of another kind, which the loop does not catch.        *)

\* requests.exceptions.RequestException and its subclasses
RequestExceptions == {"ConnectionError", "HTTPError"}

\* exceptions that are not RequestExceptions
OtherExceptions == {"ValueError"}

\* how one request can end
OK == "ok"
RequestResults == {OK} \cup RequestExceptions \cup OtherExceptions

\* time.sleep(2 ** attempt)
Backoff(k) == 2 ^ k

\* APIClient.__init__: a client is constructed with retry_attempts = r
NewClient(r) ==
    /\ rpc = "idle"
    /\ r # retry_attempts
    /\ retry_attempts' = r
    /\ attempt' = 0
    /\ sent' = <<>>
    /\ sleeps' = <<>>
    /\ ended' = NoOutcome
    /\ UNCHANGED <<rpc, nRequests, controllerVars>>
    /\ UNCHANGED <<jobs, job, context, pc, execution_order, idx, clock, outcome,
                   nCalls, calls, before, merged>>

\* _make_request is called: `for attempt in range(self.retry_attempts)`;
\* with nothing to iterate over, control falls off the end of the function
MakeRequest ==
    /\ rpc = "idle"
    /\ nRequests < MaxRequests
    /\ nRequests' = nRequests + 1
    /\ attempt' = 0
    /\ sent' = <<>>
    /\ sleeps' = <<>>
    /\ IF retry_attempts > 0
       THEN /\ rpc' = "request"
            /\ ended' = Outcome("_make_request", "", "running")
       ELSE /\ rpc' = "idle"
            /\ ended' = Outcome("_make_request", "None", "returned")
    /\ UNCHANGED <<retry_attempts, controllerVars>>
    /\ UNCHANGED <<jobs, job, context, pc, execution_order, idx, clock, outcome,
                   nCalls, calls, before, merged>>

\* one attempt: session.request, raise_for_status, and the except clause up
\* to the re-raise
SendRequest(result) ==
    /\ rpc = "request"
    /\ sent' = Append(sent, result)
    /\ IF result = OK
       THEN /\ rpc' = "idle"
            /\ ended' = Outcome("_make_request", "response", "returned")
       ELSE IF result \in RequestExceptions /\ attempt # retry_attempts - 1
       THEN /\ rpc' = "sleep"
            /\ UNCHANGED ended
       ELSE /\ rpc' = "idle"
            /\ ended' = Outcome("_make_request", result, "raised")
    /\ UNCHANGED <<retry_attempts, attempt, sleeps, nRequests, controllerVars>>
    /\ UNCHANGED <<jobs, job, context, pc, execution_order, idx, clock, outcome,
                   nCalls, calls, before, merged>>

\* time.sleep(2 ** attempt), and the loop moves to the next attempt
Sleep ==
    /\ rpc = "sleep"
    /\ sleeps' = Append(sleeps, Backoff(attempt))
    /\ attempt' = attempt + 1
    /\ rpc' = "request"
    /\ UNCHANGED <<retry_attempts, sent, ended, nRequests, controllerVars>>
    /\ UNCHANGED <<jobs, job, context, pc, execution_order, idx, clock, outcome,
                   nCalls, calls, before, merged>>

NextClient ==
    \/ \E r \in 0..MaxRetryAttempts : NewClient(r)
    \/ MakeRequest
    \/ \E result \in RequestResults : SendRequest(result)
    \/ Sleep

SpecClient == Init /\ [][NextClient]_vars

----------------------------------------------------------------------------
(* The dependency graph, as the claims speak of it *)

\* the names job n declares in depends_on (none for a name that is no job)
DeclaredDeps(n) == IF n \in Range(jobs) THEN Range(job[n].depends_on) ELSE {}

RECURSIVE ReachWithin(_, _)
ReachWithin(S, k) ==
    IF k = 0 \/ \A x \in S : DeclaredDeps(x) \subseteq S THEN S
    ELSE ReachWithin(S \cup UNION {DeclaredDeps(x) : x \in S}, k - 1)

\* the direct and transitive dependencies of n
TransitiveDeps(n) == ReachWithin(DeclaredDeps(n), Cardinality(Names))

\* every depends_on name is a job of the pipeline
Resolved == \A n \in Range(jobs) : DeclaredDeps(n) \subseteq Range(jobs)

\* no job depends on itself, directly or transitively
Acyclic == \A n \in Range(jobs) : n \notin TransitiveDeps(n)

\* the positions of name x in sequence s
Positions(s, x) == {i \in 1..Len(s) : s[i] = x}

GotOrder == outcome.op = "get_execution_order"

----------------------------------------------------------------------------
(* Claims about get_execution_order, checked under SpecOrder *)

\* C1: on an acyclic pipeline whose depends_on names all resolve,
\* get_execution_order() returns a list in which every job appears, and
\* appears strictly after each of its direct and transitive dependencies.
C1_OrderRespectsDependencies ==
    (GotOrder /\ Acyclic /\ Resolved) =>
        /\ outcome.kind = "returned"
        /\ \A n \in Range(jobs) :
              /\ Positions(execution_order, n) # {}
              /\ \A d \in TransitiveDeps(n) :
                    /\ Positions(execution_order, d) # {}
                    /\ \A i \in Positions(execution_order, d),
                          k \in Positions(execution_order, n) : i < k

\* a returned order of three jobs in which a job inserted first depends,
\* through another job, on the job inserted last
C1_Witness ==
    /\ GotOrder /\ Acyclic /\ Resolved
    /\ Len(jobs) = 3
    /\ \E n \in Range(jobs) :
          /\ jobs[1] = n
          /\ jobs[3] \in TransitiveDeps(n) \ DeclaredDeps(n)

\* C2 (as claimed): on a graph with a cycle get_execution_order() fails with
\* the CyclicDependency condition.
C2_CycleRaisesCyclicDependency ==
    (GotOrder /\ Resolved /\ ~Acyclic) => outcome.kind = "CyclicDependency"

\* C7: on an acyclic job set get_execution_order() raises MissingDependency
\* exactly when some depends_on name is not a job of the pipeline.
C7_MissingDependencyIffUnresolved ==
    (GotOrder /\ Acyclic) =>
        ((outcome.kind = "MissingDependency") <=> ~Resolved)

\* the call failed on a pipeline in which the unresolved name is declared by
\* a dependency of the first job, not by a job the top-level loop starts from
C7_Witness ==
    /\ GotOrder /\ Acyclic /\ ~Resolved
    /\ outcome.kind = "MissingDependency"
    /\ Len(jobs) = 2
    /\ DeclaredDeps(jobs[1]) = {jobs[2]}
    /\ DeclaredDeps(jobs[2]) \cap Range(jobs) = {}
    /\ DeclaredDeps(jobs[2]) # {}

----------------------------------------------------------------------------
(* Claims about add_job and run, checked under Spec *)

\* the job whose callable is being invoked (pc = "exec") or whose loop
\* iteration is next (pc = "loop")
CurrentJob == execution_order[idx]

\* the jobs placed after position idx in the execution order
LaterJobs == {execution_order[k] : k \in (idx + 1)..Len(execution_order)}

\* the jobs placed before position idx in the execution order
EarlierJobs == {execution_order[k] : k \in 1..(idx - 1)}

AllDepsSucceeded(n) ==
    \A i \in 1..Len(job[n].depends_on) :
        /\ job[n].depends_on[i] \in Range(jobs)
        /\ job[job[n].depends_on[i]].status = SUCCESS

\* C3: during run(), a job whose callable is being or has been invoked in
\* this run has every job named in its depends_on at status Success; a job
\* with a dependency that is not Success is not executed.
C3_InvokedOnlyAfterDepsSucceeded ==
    \A n \in Range(jobs) : calls[n] > 0 => AllDepsSucceeded(n)

\* the callable of a job with two different dependencies is being invoked
C3_Witness ==
    /\ pc = "exec"
    /\ Cardinality(DeclaredDeps(CurrentJob)) = 2

\* C4: when a job's callable raises, run() ends in that very step with the
\* job's failure, and every job placed after it in the execution order has
\* not been invoked and holds the status it held when the run began.
C4_FailureAbortsAndLeavesLaterJobs ==
    [][ (pc = "exec" /\ job'[CurrentJob].status = FAILED) =>
            /\ pc' = "idle"
            /\ outcome'.kind = "JobExecutionFailure"
            /\ \A n \in LaterJobs :
                  /\ calls[n] = 0
                  /\ job'[n] = job[n]
                  /\ job'[n].status = before[n] ]_vars

\* a run has aborted on a failed job and left a job Pending behind it
C4_Witness ==
    /\ pc = "idle"
    /\ outcome.kind = "JobExecutionFailure"
    /\ \E n, m \in Range(jobs) :
          /\ job[n].status = FAILED
          /\ job[m].status = PENDING
          /\ n \in DeclaredDeps(m)

\* C5: no job ever has status Skipped.
C5_SkippedUnreachable ==
    \A n \in Range(jobs) : job[n].status # SKIPPED

\* a second run has aborted on a job that succeeded in the first run, and a
\* dependent of the failed job is left as the first run left it
C5_Witness ==
    /\ pc = "idle"
    /\ outcome.kind = "JobExecutionFailure"
    /\ \E n, m \in Range(jobs) :
          /\ job[n].status = FAILED
          /\ job[n].result # None
          /\ n \in DeclaredDeps(m)
          /\ job[m].status = SUCCESS

\* the step is a call of run()
IsRunCall == pc = "idle" /\ nCalls' = nCalls + 1 /\ outcome'.op = "run"

C8_AddJobDuplicateLeavesPipeline ==
    [][ (pc = "idle" /\ outcome'.op = "add_job") =>
            IF outcome'.arg \in Range(jobs)
            THEN /\ outcome'.kind = "DuplicateJob"
                 /\ jobs' = jobs
                 /\ job' = job
                 /\ context' = context
            ELSE /\ outcome'.kind = "ok"
                 /\ jobs' = Append(jobs, outcome'.arg)
                 /\ job'[outcome'.arg] \in {NewJob(d) : d \in DepLists}
                 /\ \A n \in Range(jobs) : job'[n] = job[n] ]_vars

\* add_job() was refused for the name of a job that has already run
C8_Witness ==
    /\ outcome.op = "add_job"
    /\ outcome.kind = "DuplicateJob"
    /\ job[outcome.arg].status = SUCCESS
    /\ Len(jobs) > 1
    /\ jobs[1] = outcome.arg

\* the status changes the claim allows
ClaimedTransitions ==
    { <<PENDING, RUNNING>>, <<RUNNING, SUCCESS>>, <<RUNNING, FAILED>>,
      <<PENDING, SKIPPED>> }

\* the status changes with which a later run re-executes a job an earlier
\* run left Success or Failed
RerunTransitions == { <<SUCCESS, RUNNING>>, <<FAILED, RUNNING>> }

StatusChangesWithin(allowed) ==
    \A n \in Range(jobs) \cap Range(jobs') :
        \/ job'[n].status = job[n].status
        \/ <<job[n].status, job'[n].status>> \in allowed

\* C9 (as claimed): every status change of a job is Pending->Running,
\* Running->Success, Running->Failed or Pending->Skipped.
C9_OnlyClaimedTransitions ==
    [][StatusChangesWithin(ClaimedTransitions)]_vars

\* C9 (amended): every status change of a job is one of those four or, in a
\* run after the first, Success->Running or Failed->Running: run() does not
\* reset statuses, so a job enters Running from whatever status the earlier
\* run left it.
C9_TransitionsWithRerun ==
    [][StatusChangesWithin(ClaimedTransitions \cup RerunTransitions)]_vars

\* in a second run, a job that failed in the first is Running and a job that
\* succeeded in the first has succeeded again
C9_Witness ==
    /\ pc = "exec"
    /\ job[CurrentJob].error # None
    /\ \E n \in EarlierJobs : before[n] = SUCCESS /\ job[n].status = SUCCESS

\* C10: within one run the callable of a job is invoked at most once, and
\* the status of a job the loop has passed does not change again before the
\* run ends.
C10_EachJobProcessedOnce ==
    /\ [](\A n \in Names : calls[n] <= 1)
    /\ [][ pc # "idle" =>
              \A n \in EarlierJobs :
                  /\ job[n].status \in {SUCCESS, FAILED, SKIPPED}
                  /\ job'[n].status = job[n].status ]_vars

\* the loop is past a job that two later jobs of the order depend on
C10_Witness ==
    /\ pc = "exec"
    /\ idx = 3
    /\ execution_order[1] \in DeclaredDeps(execution_order[2])
    /\ execution_order[1] \in DeclaredDeps(execution_order[3])

\* C11: when the callable of a job raises (Job.execute ends without the job
\* at Success), the job holds status Failed and the error, its result is the
\* one it held before, and run() ends in that step with the job's failure.
C11_FailureRecordedAndReraised ==
    [][ (pc = "exec" /\ job'[CurrentJob].status # SUCCESS) =>
            /\ job'[CurrentJob].status = FAILED
            /\ job'[CurrentJob].error = Some("error")
            /\ job'[CurrentJob].result = job[CurrentJob].result
            /\ pc' = "idle"
            /\ outcome' = Outcome("run", "", "JobExecutionFailure") ]_vars

\* a run has ended with the failure of a job that still holds the result of
\* the earlier run in which it succeeded
C11_Witness ==
    /\ pc = "idle"
    /\ outcome = Outcome("run", "", "JobExecutionFailure")
    /\ \E n \in Range(jobs) :
          /\ job[n].status = FAILED
          /\ job[n].error = Some("error")
          /\ job[n].result # None
          /\ job[n].end_time[1] > job[n].result[1] + 2

\* the context holds job n's result under job_<n>_result
HasResult(n) ==
    /\ ResultKey(n) \in DOMAIN context
    /\ job[n].result # None
    /\ context[ResultKey(n)] = job[n].result[1]

\* the step writes job_<n>_result (every value written is new: the values
\* are the tokens of distinct invocations)
KeyWritten(n) ==
    /\ ResultKey(n) \in DOMAIN context'
    /\ ResultKey(n) \in DOMAIN context =>
          context'[ResultKey(n)] # context[ResultKey(n)]

\* the step is the return of job n's callable inside run()
CallableReturns(n) ==
    pc = "exec" /\ n = CurrentJob /\ job'[n].status = SUCCESS

\* during a run, job_<n>_result is written in exactly the steps in which the
\* callable of n returns, and no callable is invoked twice
WrittenOncePerSuccess ==
    /\ [](\A n \in Names : calls[n] <= 1)
    /\ [][ pc # "idle" =>
              \A n \in Names : KeyWritten(n) <=> CallableReturns(n) ]_vars

\* C12 (as claimed, taken on pipelines without a dependency cycle): when
\* run() has ended, completed or aborted, the context holds under
\* job_<name>_result the result of every job whose status is Success; within
\* a run the key is written once per successful job and never for a job that
\* failed or was skipped.
C12_SuccessJobsHaveResultKey ==
    /\ []((pc = "idle" /\ outcome.op = "run" /\ Acyclic) =>
              \A n \in Range(jobs) : job[n].status = SUCCESS => HasResult(n))
    /\ WrittenOncePerSuccess

\* C12 (amended): from the return of its callable to the end of that run,
\* the context holds under job_<name>_result the result of every job that
\* succeeded in the run; within a run the key is written once per successful
\* job and never for a job that failed or was skipped.
C12_JobsSucceededInRunHaveResultKey ==
    /\ [][ \A n \in Range(jobs') :
              (calls[n] > 0 /\ job'[n].status = SUCCESS) => HasResult(n)' ]_vars
    /\ WrittenOncePerSuccess

\* a first run has aborted: the job that succeeded has its result in the
\* context and the dependent that failed has no key
C12_Witness ==
    /\ pc = "idle"
    /\ outcome = Outcome("run", "", "JobExecutionFailure")
    /\ \E n, m \in Range(jobs) :
          /\ n \in DeclaredDeps(m)
          /\ job[n].status = SUCCESS /\ job[n].error = None /\ HasResult(n)
          /\ job[m].status = FAILED /\ job[m].result = None
          /\ ResultKey(m) \notin DOMAIN context

\* C13: while the callable of a job is being invoked by run(), every direct
\* and transitive dependency of the job has been invoked and has succeeded
\* in this run, and the context holds under job_<dep>_result the result of
\* that invocation.
C13_DependencyResultsInContext ==
    pc = "exec" =>
        \A d \in TransitiveDeps(CurrentJob) :
            /\ d \in Range(jobs)
            /\ calls[d] = 1
            /\ job[d].status = SUCCESS
            /\ job[d].result = job[d].start_time
            /\ HasResult(d)

\* the callable being invoked belongs to a job with a dependency it reaches
\* only through another job
C13_Witness ==
    /\ pc = "exec"
    /\ TransitiveDeps(CurrentJob) \ DeclaredDeps(CurrentJob) # {}

\* C14: when run() returns normally on a pipeline whose jobs were all fresh
\* (Pending) when the run began, every job has status Success, and
\* get_status_summary() then counts total_jobs jobs under 'success' and none
\* under any other status.
C14_NormalReturnAllSuccess ==
    [][ ( /\ pc # "idle"
          /\ outcome' = Outcome("run", "", "returned")
          /\ \A n \in Range(jobs) : before[n] = PENDING ) =>
            /\ \A n \in Range(jobs') : job'[n].status = SUCCESS
            /\ GetStatusSummary'.status_counts[SUCCESS] = GetStatusSummary'.total_jobs
            /\ \A s \in JobStatus \ {SUCCESS} :
                  GetStatusSummary'.status_counts[s] = 0 ]_vars

\* a first run of two jobs, one depending on the other, has returned
C14_Witness ==
    /\ pc = "idle"
    /\ outcome = Outcome("run", "", "returned")
    /\ Len(jobs) = 2
    /\ jobs[1] \in DeclaredDeps(jobs[2])
    /\ GetStatusSummary.status_counts[SUCCESS] = 2
    /\ \A n \in Range(jobs) : job[n].result = Some(job[n].end_time[1] - 1)
    /\ job[jobs[1]].start_time = Some(1)

----------------------------------------------------------------------------
(* Further claims about get_execution_order, checked under SpecOrder *)

\* C15: on an acyclic pipeline whose depends_on names all resolve,
\* get_execution_order() returns a permutation of the job names: every job
\* exactly once and no other name.
C15_OrderIsPermutation ==
    (GotOrder /\ Acyclic /\ Resolved) =>
        /\ outcome.kind = "returned"
        /\ Len(execution_order) = Len(jobs)
        /\ Range(execution_order) = Range(jobs)
        /\ \A n \in Range(jobs) : Cardinality(Positions(execution_order, n)) = 1

\* an order was returned for a pipeline in which one job names the same
\* dependency twice and another job depends on that dependency too
C15_Witness ==
    /\ GotOrder /\ Acyclic /\ Resolved
    /\ outcome.kind = "returned"
    /\ \E n, m, d \in Range(jobs) :
          /\ n # m
          /\ job[n].depends_on = <<d, d>>
          /\ d \in DeclaredDeps(m)

\* no dependency path leads from x to y or from y to x
Independent(x, y) ==
    x # y /\ x \notin TransitiveDeps(y) /\ y \notin TransitiveDeps(x)

\* x comes before y in sequence s (each occurring in s)
Precedes(s, x, y) ==
    \E i \in Positions(s, x) : \E k \in Positions(s, y) : i < k

\* a call of get_execution_order() that follows a call that returned, on the
\* same pipeline, returns the same list
RepeatedCallsAgree ==
    [][ (GotOrder /\ outcome.kind = "returned" /\ nCalls' = nCalls + 1) =>
            /\ outcome' = outcome
            /\ execution_order' = execution_order ]_vars

\* C16 (as claimed): of two jobs with no dependency path between them,
\* get_execution_order() lists first the one that was added first; repeated
\* calls on an unchanged pipeline return the same list.
C16_IndependentJobsInInsertionOrder ==
    /\ []((GotOrder /\ outcome.kind = "returned") =>
             \A x, y \in Range(jobs) :
                 (Independent(x, y) /\ Precedes(jobs, x, y)) =>
                     Precedes(execution_order, x, y))
    /\ RepeatedCallsAgree

\* C16 (amended): of two jobs with no dependency path between them,
\* get_execution_order() lists first the one that was added first, unless
\* the other is a direct or transitive dependency of a job added still
\* earlier; repeated calls on an unchanged pipeline return the same list.
C16_InsertionOrderUnlessPulledForward ==
    /\ []((GotOrder /\ outcome.kind = "returned") =>
             \A x, y \in Range(jobs) :
                 ( /\ Independent(x, y)
                   /\ Precedes(jobs, x, y)
                   /\ \A w \in Range(jobs) :
                         Precedes(jobs, w, x) => y \notin TransitiveDeps(w) ) =>
                     Precedes(execution_order, x, y))
    /\ RepeatedCallsAgree

\* a second call has returned the order of a pipeline in which the job added
\* last is independent of the job added first and is pulled before the job
\* added second, which depends on it
C16_Witness ==
    /\ GotOrder /\ outcome.kind = "returned"
    /\ nCalls = 2
    /\ Len(jobs) = 3
    /\ Independent(jobs[1], jobs[3])
    /\ jobs[3] \in DeclaredDeps(jobs[2])
    /\ execution_order = <<jobs[1], jobs[3], jobs[2]>>

\* every job was added to the pipeline after all the jobs it depends on
AddedAfterDependencies ==
    \A n \in Range(jobs) : \A d \in DeclaredDeps(n) : Precedes(jobs, d, n)

\* C17: when every job was added after all the jobs it depends on (as when
\* no job has dependencies), get_execution_order() returns the jobs exactly
\* in insertion order.
C17_InsertionOrderWhenAddedAfterDeps ==
    (GotOrder /\ AddedAfterDependencies) =>
        /\ outcome.kind = "returned"
        /\ execution_order = jobs

\* the order of load, process depending on load, save depending on process
C17_Witness ==
    /\ GotOrder /\ outcome.kind = "returned"
    /\ Len(jobs) = 3
    /\ job[jobs[1]].depends_on = <<>>
    /\ job[jobs[2]].depends_on = <<jobs[1]>>
    /\ job[jobs[3]].depends_on = <<jobs[2]>>
    /\ execution_order = jobs

----------------------------------------------------------------------------
(* Further claims about run, checked under Spec *)

\* Job.execute is in progress on job n
InsideExecute(n) == pc = "exec" /\ n = CurrentJob

\* C18: once Job.execute() has returned or raised, the job (status Success
\* or Failed) has start_time and end_time set and get_duration() is present;
\* get_duration() is absent exactly for the jobs whose execution was never
\* attempted, which are still as constructed.
C18_DurationPresentIffAttempted ==
    \A n \in Range(jobs) :
        ~InsideExecute(n) =>
            /\ job[n].status \in {SUCCESS, FAILED} =>
                  /\ job[n].start_time # None
                  /\ job[n].end_time # None
                  /\ GetDuration(n) # None
            /\ GetDuration(n) = None <=> job[n].status \notin {SUCCESS, FAILED}
            /\ job[n].status \notin {SUCCESS, FAILED} =>
                  job[n] = NewJob(job[n].depends_on)

\* a run has aborted leaving one job Success and one Failed, each with a
\* duration, and one never attempted, without
C18_Witness ==
    /\ pc = "idle"
    /\ \E s, f, p \in Range(jobs) :
          /\ job[s].status = SUCCESS /\ GetDuration(s) = Some(1)
          /\ job[f].status = FAILED /\ GetDuration(f) = Some(1)
          /\ job[p].status = PENDING /\ GetDuration(p) = None

\* the keys job_<name>_result of the jobs of the pipeline
ResultKeys == {ResultKey(n) : n \in Range(jobs)}

\* C19: run(initial_context) has merged every key of initial_context into
\* the context, leaving the other keys alone, before any job runs; when the
\* run completes, the context it returns holds every initial key, with its
\* initial value unless the key is a job's result key, and holds
\* job_<name>_result, with the job's result, for every job.
C19_InitialContextMergedAndReturned ==
    /\ [][ (IsRunCall /\ pc' = "loop") =>
              /\ calls' = NoCalls
              /\ job' = job
              /\ DOMAIN context' = DOMAIN context \cup DOMAIN merged'
              /\ \A k \in DOMAIN merged' : context'[k] = merged'[k]
              /\ \A k \in DOMAIN context \ DOMAIN merged' :
                    context'[k] = context[k] ]_vars
    /\ [][ (pc # "idle" /\ outcome' = Outcome("run", "", "returned")) =>
              /\ context' = context
              /\ \A k \in DOMAIN merged :
                    /\ k \in DOMAIN context'
                    /\ k \notin ResultKeys => context'[k] = merged[k]
              /\ \A n \in Range(jobs) : HasResult(n)' ]_vars

\* the only run() so far was given the keys user and job_a_result and has
\* completed: user is kept, job_a_result holds the result of job a, and the
\* second job has its key
C19_Witness ==
    /\ pc = "idle"
    /\ outcome = Outcome("run", "", "returned")
    /\ nCalls = 3
    /\ Len(jobs) = 2
    /\ "a" \in Range(jobs)
    /\ DOMAIN context = {"user"} \cup ResultKeys
    /\ context["user"] = 0
    /\ context[ResultKey("a")] # 0
    /\ \A n \in Range(jobs) : HasResult(n)

\* the jobs of the pipeline that hold status s
JobsWithStatus(s) == {n \in DOMAIN job : job[n].status = s}

\* C20: in every reachable state get_status_summary() reports total_jobs
\* equal to the number of jobs, for each of the five statuses a count equal
\* to the number of jobs holding it (the counts add up to total_jobs), and
\* for each job an entry with the job's status.
C20_SummaryMatchesJobs ==
    LET summary == GetStatusSummary
    IN  /\ summary.total_jobs = Cardinality(DOMAIN job)
        /\ DOMAIN summary.status_counts = JobStatus
        /\ \A s \in JobStatus :
              summary.status_counts[s] = Cardinality(JobsWithStatus(s))
        /\ summary.status_counts[PENDING] + summary.status_counts[RUNNING]
             + summary.status_counts[SUCCESS] + summary.status_counts[FAILED]
             + summary.status_counts[SKIPPED] = summary.total_jobs
        /\ DOMAIN summary.jobs = DOMAIN job
        /\ \A n \in DOMAIN job : summary.jobs[n].status = job[n].status

\* the summary taken while the second of three jobs is running counts one
\* job under each of success, running and pending
C20_Witness ==
    /\ pc = "exec"
    /\ GetStatusSummary.total_jobs = 3
    /\ GetStatusSummary.status_counts[SUCCESS] = 1
    /\ GetStatusSummary.status_counts[RUNNING] = 1
    /\ GetStatusSummary.status_counts[PENDING] = 1

----------------------------------------------------------------------------
(* Claims about get_status_summary as a call, checked under SpecSummary *)

\* the step is a call of get_status_summary()
IsSummaryCall ==
    pc = "idle" /\ nCalls' = nCalls + 1 /\ outcome'.op = "get_status_summary"

\* C21: a call of get_status_summary() changes no job, no job field and no
\* context key, and a second call made right after it returns what the first
\* returned.
C21_SummaryIsPureRead ==
    [][ IsSummaryCall =>
            /\ jobs' = jobs
            /\ job' = job
            /\ context' = context
            /\ GetStatusSummary' = GetStatusSummary ]_vars

\* the summary was taken of a pipeline that a run left with a succeeded and
\* a failed job and a non-empty context
C21_Witness ==
    /\ outcome.op = "get_status_summary"
    /\ GetStatusSummary.status_counts[SUCCESS] = 1
    /\ GetStatusSummary.status_counts[FAILED] = 1
    /\ GetStatusSummary.total_duration = 2
    /\ DOMAIN context # {}

----------------------------------------------------------------------------
(* Claims about total_duration, checked under SpecDurations *)

\* the jobs that have a recorded duration
TimedJobs == {n \in DOMAIN job : GetDuration(n) # None}

\* the exact sum of end_time - start_time over a set of jobs with a
\* duration, taken in no particular order
RECURSIVE DurationSum(_)
DurationSum(S) ==
    IF S = {} THEN 0
    ELSE LET n == CHOOSE x \in S : TRUE
         IN  (job[n].end_time[1] - job[n].start_time[1]) + DurationSum(S \ {n})

\* the step puts a job of the pipeline last in the insertion order
IsReinsert == pc = "idle" /\ outcome'.op = "reinsert"

\* no addition of the summing loop rounds: the durations are positive and
\* their exact sum, hence every partial sum, fits the significand
AddsExactly ==
    /\ \A n \in TimedJobs : job[n].end_time[1] > job[n].start_time[1]
    /\ DurationSum(TimedJobs) <= 2 ^ MantissaBits

\* the float sum of the durations of the jobs of s, added from first to last
RECURSIVE FloatSumOf(_)
FloatSumOf(s) ==
    IF s = <<>> THEN 0
    ELSE FloatAdd(FloatSumOf(SubSeq(s, 1, Len(s) - 1)),
                  GetDuration(s[Len(s)])[1])

\* C22 (as claimed): get_status_summary()['total_duration'] is the sum of
\* end_time - start_time over the jobs that have a recorded duration, in
\* whatever order the sum is taken, and is the same for every insertion
\* order of the same jobs.
C22_TotalDurationIsSumInAnyOrder ==
    /\ [](\A s \in JobSeqs :
             Range(s) = TimedJobs =>
                 GetStatusSummary.total_duration = FloatSumOf(s))
    /\ [][ IsReinsert =>
              GetStatusSummary'.total_duration = GetStatusSummary.total_duration ]_vars

\* C22 (amended): when no addition of the summing loop rounds,
\* total_duration is the sum of end_time - start_time over the jobs that have
\* a recorded duration and is the same for every insertion order of the same
\* jobs.
C22_TotalDurationIsSumWhenExact ==
    /\ [](AddsExactly => GetStatusSummary.total_duration = DurationSum(TimedJobs))
    /\ [][ (IsReinsert /\ AddsExactly) =>
              GetStatusSummary'.total_duration = GetStatusSummary.total_duration ]_vars

\* three jobs with durations adding up exactly to the largest significand
\* have been put in another insertion order than the one they ran in
C22_Witness ==
    /\ outcome.op = "reinsert"
    /\ Len(jobs) = 3
    /\ jobs # ExecutedOrder
    /\ AddsExactly
    /\ GetStatusSummary.total_duration = 2 ^ MantissaBits
    /\ \E n \in TimedJobs : GetDuration(n) = Some(2)

----------------------------------------------------------------------------
(* Further claims about run, checked under Spec *)

\* every job of the pipeline was Pending when the run in progress began
RunOnFreshJobs == \A n \in Range(jobs) : before[n] = PENDING

\* C23: when run() on fresh jobs aborts on a failing job, that job is the
\* only one Failed, every job before it in the execution order is Success,
\* every job after it is Pending, and get_status_summary() reports exactly
\* these statuses, with the error of the failed job and of no other.
C23_AbortLeavesPartialState ==
    [][ (pc = "exec" /\ outcome'.kind = "JobExecutionFailure" /\ RunOnFreshJobs) =>
            LET summary == GetStatusSummary'
            IN  /\ {n \in Range(jobs) : job'[n].status = FAILED} = {CurrentJob}
                /\ \A n \in EarlierJobs : job'[n].status = SUCCESS
                /\ \A n \in LaterJobs : job'[n].status = PENDING
                /\ summary.status_counts =
                      [s \in JobStatus |->
                          CASE s = FAILED  -> 1
                            [] s = SUCCESS -> idx - 1
                            [] s = PENDING -> Len(execution_order) - idx
                            [] OTHER       -> 0]
                /\ \A n \in Range(jobs) :
                      /\ summary.jobs[n].status = job'[n].status
                      /\ summary.jobs[n].error =
                            IF n = CurrentJob THEN Some("error") ELSE None ]_vars

\* the first run of three jobs has aborted on the second
C23_Witness ==
    /\ pc = "idle"
    /\ outcome = Outcome("run", "", "JobExecutionFailure")
    /\ nCalls = 4
    /\ Len(jobs) = 3
    /\ GetStatusSummary.status_counts[SUCCESS] = 1
    /\ GetStatusSummary.status_counts[FAILED] = 1
    /\ GetStatusSummary.status_counts[PENDING] = 1
    /\ \E n \in Range(jobs) : GetStatusSummary.jobs[n].error = Some("error")

\* the jobs whose callable has been invoked in the run in progress
InvokedJobs == {n \in Names : calls[n] > 0}

\* C24: run() executes the jobs one at a time in the order
\* get_execution_order() returns: at most one job is Running in any state;
\* during a run the jobs invoked so far are those of an initial stretch of
\* that order; and while a callable is being invoked its job is the one
\* Running and every job before it in the order is in a terminal status.
C24_OneAtATimeInOrder ==
    /\ Cardinality(JobsWithStatus(RUNNING)) <= 1
    /\ pc # "idle" =>
          /\ execution_order = GetExecutionOrder.ordered
          /\ InvokedJobs =
                {execution_order[k] :
                    k \in 1..(IF pc = "exec" THEN idx ELSE idx - 1)}
    /\ pc = "exec" =>
          /\ JobsWithStatus(RUNNING) = {CurrentJob}
          /\ \A n \in EarlierJobs : job[n].status \in {SUCCESS, FAILED, SKIPPED}
    /\ pc # "exec" => JobsWithStatus(RUNNING) = {}

\* the second callable of a run is being invoked, in an order that is not
\* the insertion order
C24_Witness ==
    /\ pc = "exec"
    /\ idx = 2
    /\ execution_order # jobs
    /\ job[execution_order[1]].status = SUCCESS
    /\ job[execution_order[2]].status = RUNNING

\* C25: whatever status the jobs hold from an earlier run, every iteration of
\* the loop of run() invokes the callable of its job, and every return of a
\* callable replaces the value under job_<name>_result by the new result.
C25_RerunReexecutesEveryJob ==
    /\ [][ (pc = "loop" /\ idx <= Len(execution_order)) =>
              /\ pc' = "exec"
              /\ idx' = idx
              /\ calls' = [calls EXCEPT ![CurrentJob] = 1]
              /\ job'[CurrentJob].status = RUNNING ]_vars
    /\ [][ \A n \in Names : CallableReturns(n) =>
              /\ job'[n].result = job[n].start_time
              /\ job'[n].result # job[n].result
              /\ HasResult(n)'
              /\ KeyWritten(n) ]_vars

\* in a second run, a job that was Success has been invoked again and its
\* new result has replaced the old one in the context, and the job that was
\* Failed is being invoked again
C25_Witness ==
    /\ pc = "exec"
    /\ before[CurrentJob] = FAILED
    /\ \E n \in EarlierJobs :
          /\ before[n] = SUCCESS
          /\ calls[n] = 1
          /\ job[n].result[1] > 1
          /\ HasResult(n)

\* C27 (as claimed): a job whose status is Success has error absent, and
\* get_status_summary() reports no error for it.
C27_SuccessHasNoError ==
    \A n \in Range(jobs) :
        job[n].status = SUCCESS =>
            /\ job[n].error = None
            /\ GetStatusSummary.jobs[n].error = None

\* C27 (amended): the error of a job is absent until its callable raises and
\* is never cleared afterwards, so a job that is Success has error absent
\* when it was fresh at the start of the run, and keeps the description of
\* its earlier failure otherwise; get_status_summary() reports the field as
\* it is.
C27_ErrorKeptUntilNextFailure ==
    /\ [](\A n \in Range(jobs) :
            /\ GetStatusSummary.jobs[n].error = job[n].error
            /\ job[n].status \in {PENDING, SKIPPED} => job[n].error = None
            /\ job[n].status = FAILED => job[n].error # None
            /\ (pc # "idle" /\ before[n] = PENDING /\ job[n].status = SUCCESS) =>
                  job[n].error = None)
    /\ [][ \A n \in Range(jobs) \cap Range(jobs') :
              job'[n].error # job[n].error =>
                  /\ pc = "exec"
                  /\ n = CurrentJob
                  /\ job'[n].status = FAILED
                  /\ job'[n].error # None ]_vars

\* a job that failed in an earlier run has succeeded in a later one and is
\* reported as success together with the old error
C27_Witness ==
    \E n \in Range(jobs) :
        /\ GetStatusSummary.jobs[n].status = SUCCESS
        /\ GetStatusSummary.jobs[n].error = Some("error")
        /\ job[n].result # None

\* C28: in every state, also while a job is Running, a job that has both
\* start_time and end_time has start_time <= end_time, so get_duration() is
\* never negative.
C28_StartNotAfterEnd ==
    \A n \in Range(jobs) :
        (job[n].start_time # None /\ job[n].end_time # None) =>
            /\ job[n].start_time[1] <= job[n].end_time[1]
            /\ GetDuration(n)[1] >= 0

----------------------------------------------------------------------------
(* Claims about ProcessController, checked under SpecController *)

\* the names of the registered pipelines
RegisteredNames == {pipelines[i].name : i \in 1..Len(pipelines)}

\* C26: run_all_pipelines() runs the registered pipelines one after the
\* other in the order of the mapping, each once; a pipeline whose run raises
\* gets the entry {'error': message} and the loop goes on; the mapping
\* returned has one entry per registered pipeline.  run_pipeline(name) runs
\* nothing and raises when the name is unknown, and lets the failure of the
\* pipeline through otherwise.
C26_RunAllIsolatesFailures ==
    /\ [][ (ctl.pc = "loop" /\ ctl.idx <= Len(pipelines)) =>
              /\ ctl'.pc = "loop"
              /\ ctl'.idx = ctl.idx + 1
              /\ Len(ctl'.ran) = ctl.idx
              /\ ctl'.ran[ctl.idx].pipeline = pipelines[ctl.idx] ]_vars
    /\ [](ctl.outcome = Outcome("run_all_pipelines", "", "returned") =>
            /\ Len(ctl.ran) = Len(pipelines)
            /\ DOMAIN results = RegisteredNames
            /\ \A i \in 1..Len(pipelines) :
                  /\ ctl.ran[i].pipeline = pipelines[i]
                  /\ results[pipelines[i].name] =
                        IF ctl.ran[i].raised THEN Failure("error")
                        ELSE Returned(pipelines[i]))
    /\ [](ctl.pc = "loop" => ctl.outcome.kind = "running")
    /\ [](ctl.outcome.op = "run_pipeline" =>
            IF Registered(ctl.outcome.arg)
            THEN /\ Len(ctl.ran) = 1
                 /\ ctl.ran[1].pipeline = PipelineNamed(ctl.outcome.arg)
                 /\ ctl.outcome.kind =
                       IF ctl.ran[1].raised THEN "JobExecutionFailure" ELSE "returned"
            ELSE /\ ctl.ran = <<>>
                 /\ ctl.outcome.kind = "PipelineNotFound")
    /\ [][ ctl'.outcome.kind = "PipelineNotFound" =>
              \A pipeline \in Pipelines : heap'[pipeline] = heap[pipeline] ]_vars

\* run_all_pipelines() has returned from two pipelines of which the first
\* raised and the second returned, the first registered under a name that
\* was registered before
C26_Witness ==
    /\ ctl.outcome = Outcome("run_all_pipelines", "", "returned")
    /\ Len(pipelines) = 2
    /\ pipelines[1].serial = 2
    /\ results[pipelines[1].name] = Failure("error")
    /\ results[pipelines[2].name] = Returned(pipelines[2])

\* the pipelines run so far by the call in progress (or by the last call)
RanPipelines == {ctl.ran[i].pipeline : i \in 1..Len(ctl.ran)}

\* the dicts other than the context of pipeline that hold a value written
\* by pipeline
HoldersOf(pipeline) ==
    {r \in Refs \ {pipeline} : \E key \in DOMAIN heap[r] : heap[r][key] = pipeline}

\* C29 (as claimed): the mapping passed as context is never modified by the
\* runs, and a value written by one pipeline never appears in the caller's
\* dict or in the context of another pipeline.
C29_ContextArgumentNeverModified ==
    /\ ctl.context # None => heap[ctl.context[1]] = ctl.passed
    /\ \A pipeline \in Pipelines : HoldersOf(pipeline) = {}

\* C29 (amended): the mapping passed as context is not modified by the runs
\* unless it is the context of a pipeline that is run; the dict the caller
\* built never holds a value written by a pipeline; and a value written by
\* one pipeline comes to the context of another only in a call whose context
\* argument is itself the context of a Pipeline.
C29_ContextArgumentModifiedOnlyIfOwn ==
    /\ [](ctl.context # None /\ ctl.context[1] \notin RanPipelines =>
            heap[ctl.context[1]] = ctl.passed)
    /\ [](\A pipeline \in Pipelines : CALLER \notin HoldersOf(pipeline))
    /\ [][ \A pipeline \in Pipelines :
              ~(HoldersOf(pipeline)' \subseteq HoldersOf(pipeline)) =>
                  /\ ctl'.context # None
                  /\ ctl'.context[1] \in Pipelines ]_vars

\* run_all_pipelines has run two pipelines on a dict the caller built: both
\* have copied its key and stored their own results, and the dict is as it
\* was
C29_Witness ==
    /\ ctl.outcome = Outcome("run_all_pipelines", "", "returned")
    /\ ctl.context = Some(CALLER)
    /\ heap[CALLER] = [k \in {"user"} |-> CALLER]
    /\ Len(pipelines) = 2
    /\ \A i \in 1..2 :
          /\ ~ctl.ran[i].raised
          /\ heap[pipelines[i]] =
                [k \in {"user", ResultKey("a"), ResultKey("b")} |->
                    IF k = "user" THEN CALLER ELSE pipelines[i]]

----------------------------------------------------------------------------
(* Claims about APIClient._make_request, checked under SpecClient *)

\* the requests of the current call that failed with a RequestException
FailedAttempts == {i \in 1..Len(sent) : sent[i] \in RequestExceptions}

\* C30: a call of _make_request issues at most retry_attempts requests and
\* ends by returning a response or by raising: it returns the response of
\* the first request that succeeds, raises the failure of the last request
\* when retry_attempts requests have failed, and sleeps 2^k seconds after the
\* k-th failed request (k from 0) except after the last one.
C30_RetriesThenResponseOrRaise ==
    /\ Len(sent) <= retry_attempts
    /\ \A i \in 1..(Len(sent) - 1) : sent[i] \in RequestExceptions
    /\ rpc = "request" => sleeps = [k \in 1..Len(sent) |-> Backoff(k - 1)]
    /\ rpc = "sleep" => sleeps = [k \in 1..(Len(sent) - 1) |-> Backoff(k - 1)]
    /\ (rpc = "idle" /\ ended.op = "_make_request") =>
          /\ sleeps = [k \in 1..(Len(sent) - 1) |-> Backoff(k - 1)]
          /\ sent # <<>>
          /\ \/ /\ ended = Outcome("_make_request", "response", "returned")
                /\ sent[Len(sent)] = OK
             \/ /\ ended = Outcome("_make_request", sent[Len(sent)], "raised")
                /\ sent[Len(sent)] # OK
                /\ sent[Len(sent)] \in RequestExceptions => Len(sent) = retry_attempts

====
